---- MODULE Spec2Model ----
(***************************************************************************)
(* A model of fernet-ts: src/src/Fernet.ts and src/src/utils/crypto.ts.    *)
(*                                                                         *)
(* Bytes are integers 0..255, a Uint8Array is a sequence of bytes, a text  *)
(* (a JavaScript string) is a sequence of UTF-16 code units.  The host's   *)
(* primitives are modelled by what they do: atob/btoa by the base64        *)
(* algorithms of the HTML standard, TextEncoder/TextDecoder by the UTF-8   *)
(* encoder and decoder of the Encoding standard, AES-CBC by PKCS#7 padding *)
(* and CBC chaining around a keyed block permutation, HMAC by a keyed      *)
(* 32-byte digest.  The block permutation and the digest are stand-ins for *)
(* AES-128 and HMAC-SHA256, which the repository takes from WebCrypto.     *)
(***************************************************************************)
EXTENDS Integers, Sequences, FiniteSets, TLC

VARIABLES fernet, secret, nowMs, call, outcome, issued, calls, outcomes

vars == <<fernet, secret, nowMs, call, outcome, issued, calls, outcomes>>

----------------------------------------------------------------------------
(* Sizes written in the source.                                            *)

\* tokenBuffer.length < 73
MinTokenLength == 73
\* 1 + 8 + 16 + 32: version, timestamp, IV and HMAC
VersionLength == 1
TimestampLength == 8
IvLength == 16
HmacLength == 32
\* the AES block, "% 16"
BlockLength == 16
\* keyBuffer.length !== 32
SecretLength == 32
\* new Uint8Array([0x80])
Version == 128

----------------------------------------------------------------------------
(* Arithmetic of the host language.                                        *)

\* JavaScript's %: the remainder takes the sign of the dividend.
JsRem(a, b) == IF a >= 0 THEN a % b ELSE -((-a) % b)

RECURSIVE XorBits(_, _, _)
XorBits(a, b, n) ==
  IF n = 0 THEN 0
  ELSE ((a + b) % 2) + 2 * XorBits(a \div 2, b \div 2, n - 1)

\* bitwise exclusive or of two bytes
Xor8(a, b) == XorBits(a, b, 8)

\* bytes.slice(from, to) with 0-based from (inclusive) and to (exclusive),
\* both already resolved to non-negative offsets
Slice(bytes, from, to) ==
  LET lo == IF from > Len(bytes) THEN Len(bytes) ELSE from
      hi == IF to > Len(bytes) THEN Len(bytes) ELSE to
  IN  IF hi <= lo THEN <<>> ELSE SubSeq(bytes, lo + 1, hi)

\* bytes.slice(0, -n) and bytes.slice(-n), for n > 0
SliceHead(bytes, n) ==
  Slice(bytes, 0, IF Len(bytes) - n < 0 THEN 0 ELSE Len(bytes) - n)
SliceTail(bytes, n) ==
  Slice(bytes, IF Len(bytes) - n < 0 THEN 0 ELSE Len(bytes) - n, Len(bytes))

----------------------------------------------------------------------------
(* base64: globalThis.btoa and globalThis.atob, and the url-safe mapping.  *)

Plus == 43
Slash == 47
Minus == 45
Underscore == 95
Equals == 61

\* the character (code unit) of the standard base64 alphabet for 0..63
B64Char(v) ==
  IF v < 26 THEN 65 + v
  ELSE IF v < 52 THEN 97 + (v - 26)
  ELSE IF v < 62 THEN 48 + (v - 52)
  ELSE IF v = 62 THEN Plus ELSE Slash

IsB64Char(c) ==
  \/ c \in 65..90
  \/ c \in 97..122
  \/ c \in 48..57
  \/ c = Plus
  \/ c = Slash

B64Value(c) ==
  IF c \in 65..90 THEN c - 65
  ELSE IF c \in 97..122 THEN c - 97 + 26
  ELSE IF c \in 48..57 THEN c - 48 + 52
  ELSE IF c = Plus THEN 62 ELSE 63

\* ASCII whitespace: TAB, LF, FF, CR, SPACE
IsAsciiWhitespace(c) == c \in {9, 10, 12, 13, 32}

\* btoa of the binary string whose code units are the bytes
Btoa(bytes) ==
  LET n == Len(bytes)
      B(k) == IF k <= n THEN bytes[k] ELSE 0
  IN  [i \in 1..(4 * ((n + 2) \div 3)) |->
        LET g == (i - 1) \div 4
            p == (i - 1) % 4
            b1 == B(3 * g + 1)
            b2 == B(3 * g + 2)
            b3 == B(3 * g + 3)
        IN  IF p = 0 THEN B64Char(b1 \div 4)
            ELSE IF p = 1 THEN B64Char((b1 % 4) * 16 + (b2 \div 16))
            ELSE IF p = 2 THEN
              IF 3 * g + 2 > n THEN Equals
              ELSE B64Char((b2 % 16) * 4 + (b3 \div 64))
            ELSE
              IF 3 * g + 3 > n THEN Equals ELSE B64Char(b3 % 64)]

Thrown(name) == [ok |-> FALSE, val |-> name]
Returned(v) == [ok |-> TRUE, val |-> v]

\* atob: forgiving-base64 decode; the result's code units are the bytes
Atob(text) ==
  LET stripped == SelectSeq(text, LAMBDA c : ~IsAsciiWhitespace(c))
      n0 == Len(stripped)
      data ==
        IF n0 % 4 = 0 /\ n0 > 0 /\ stripped[n0] = Equals
        THEN IF stripped[n0 - 1] = Equals
             THEN SubSeq(stripped, 1, n0 - 2)
             ELSE SubSeq(stripped, 1, n0 - 1)
        ELSE stripped
      n == Len(data)
      V(k) == IF k <= n THEN B64Value(data[k]) ELSE 0
  IN  IF n % 4 = 1 THEN Thrown("InvalidCharacterError")
      ELSE IF \E k \in 1..n : ~IsB64Char(data[k])
           THEN Thrown("InvalidCharacterError")
      ELSE Returned(
        [j \in 1..((n * 6) \div 8) |->
          LET g == (j - 1) \div 3
              q == (j - 1) % 3
              v1 == V(4 * g + 1)
              v2 == V(4 * g + 2)
              v3 == V(4 * g + 3)
              v4 == V(4 * g + 4)
          IN  IF q = 0 THEN v1 * 4 + (v2 \div 16)
              ELSE IF q = 1 THEN (v2 % 16) * 16 + (v3 \div 4)
              ELSE (v3 % 4) * 64 + v4])

\* text.replace(/a/g, b)
ReplaceAll(text, a, b) == [i \in 1..Len(text) |-> IF text[i] = a THEN b ELSE text[i]]

\* fromBase64Url that takes padded text only
fromBase64Url_PaddedOnly(base64url) ==
  IF Len(base64url) % 4 # 0 THEN Thrown("InvalidCharacterError")
  ELSE Atob(ReplaceAll(ReplaceAll(base64url, Underscore, Slash), Minus, Plus))

fromBase64Url(base64url) ==
  Atob(ReplaceAll(ReplaceAll(base64url, Underscore, Slash), Minus, Plus))

toBase64Url(bytes) ==
  ReplaceAll(ReplaceAll(Btoa(bytes), Plus, Minus), Slash, Underscore)

----------------------------------------------------------------------------
(* UTF-8: new TextEncoder().encode and new TextDecoder().decode.           *)

Replacement == 65533
ByteOrderMark == 65279

IsHighSurrogate(u) == u \in 55296..56319
IsLowSurrogate(u) == u \in 56320..57343

\* The scalar values of a string: a surrogate pair is one code point, a lone
\* surrogate becomes U+FFFD.
RECURSIVE ScalarValues(_, _)
ScalarValues(units, i) ==
  IF i > Len(units) THEN <<>>
  ELSE IF IsHighSurrogate(units[i])
       THEN IF i < Len(units) /\ IsLowSurrogate(units[i + 1])
            THEN <<65536 + (units[i] - 55296) * 1024 + (units[i + 1] - 56320)>>
                   \o ScalarValues(units, i + 2)
            ELSE <<Replacement>> \o ScalarValues(units, i + 1)
  ELSE IF IsLowSurrogate(units[i])
       THEN <<Replacement>> \o ScalarValues(units, i + 1)
  ELSE <<units[i]>> \o ScalarValues(units, i + 1)

Utf8EncodeOne(cp) ==
  IF cp < 128 THEN <<cp>>
  ELSE IF cp < 2048 THEN <<192 + (cp \div 64), 128 + (cp % 64)>>
  ELSE IF cp < 65536
       THEN <<224 + (cp \div 4096), 128 + ((cp \div 64) % 64), 128 + (cp % 64)>>
  ELSE <<240 + (cp \div 262144), 128 + ((cp \div 4096) % 64),
         128 + ((cp \div 64) % 64), 128 + (cp % 64)>>

RECURSIVE Utf8EncodeAll(_, _)
Utf8EncodeAll(cps, i) ==
  IF i > Len(cps) THEN <<>>
  ELSE Utf8EncodeOne(cps[i]) \o Utf8EncodeAll(cps, i + 1)

\* new TextEncoder().encode(text)
TextEncode(text) == Utf8EncodeAll(ScalarValues(text, 1), 1)

\* The UTF-8 decoder of the Encoding standard with error mode "replacement":
\* the code points of bytes[i..], in decoder state (needed, seen, cp, lower,
\* upper).
RECURSIVE Utf8Decode(_, _, _, _, _, _, _)
Utf8Decode(bytes, i, needed, seen, cp, lower, upper) ==
  IF i > Len(bytes)
  THEN IF needed # 0 THEN <<Replacement>> ELSE <<>>
  ELSE
    LET b == bytes[i] IN
    IF needed = 0 THEN
      IF b <= 127 THEN <<b>> \o Utf8Decode(bytes, i + 1, 0, 0, 0, 128, 191)
      ELSE IF b \in 194..223
           THEN Utf8Decode(bytes, i + 1, 1, 0, b % 32, 128, 191)
      ELSE IF b \in 224..239
           THEN Utf8Decode(bytes, i + 1, 2, 0, b % 16,
                           IF b = 224 THEN 160 ELSE 128,
                           IF b = 237 THEN 159 ELSE 191)
      ELSE IF b \in 240..244
           THEN Utf8Decode(bytes, i + 1, 3, 0, b % 8,
                           IF b = 240 THEN 144 ELSE 128,
                           IF b = 244 THEN 143 ELSE 191)
      ELSE <<Replacement>> \o Utf8Decode(bytes, i + 1, 0, 0, 0, 128, 191)
    ELSE IF b < lower \/ b > upper
         \* the byte is put back and read again in the initial state
         THEN <<Replacement>> \o Utf8Decode(bytes, i, 0, 0, 0, 128, 191)
    ELSE IF seen + 1 = needed
         THEN <<cp * 64 + (b % 64)>> \o Utf8Decode(bytes, i + 1, 0, 0, 0, 128, 191)
    ELSE Utf8Decode(bytes, i + 1, needed, seen + 1, cp * 64 + (b % 64), 128, 191)

\* the UTF-16 code units of a sequence of code points
RECURSIVE CodeUnits(_, _)
CodeUnits(cps, i) ==
  IF i > Len(cps) THEN <<>>
  ELSE IF cps[i] >= 65536
       THEN <<55296 + ((cps[i] - 65536) \div 1024),
              56320 + ((cps[i] - 65536) % 1024)>> \o CodeUnits(cps, i + 1)
  ELSE <<cps[i]>> \o CodeUnits(cps, i + 1)

\* new TextDecoder().decode(bytes): fatal is false and ignoreBOM is false, so
\* malformed input decodes to U+FFFD and a leading byte order mark is dropped.
TextDecode(bytes) ==
  LET body ==
        IF Len(bytes) >= 3 /\ bytes[1] = 239 /\ bytes[2] = 187 /\ bytes[3] = 191
        THEN SubSeq(bytes, 4, Len(bytes))
        ELSE bytes
  IN  CodeUnits(Utf8Decode(body, 1, 0, 0, 0, 128, 191), 1)

----------------------------------------------------------------------------
(* The host's cryptography: crypto.getRandomValues and crypto.subtle.      *)

\* crypto.subtle.importKey('raw', key, algo, false, keyUsages)
importKey(key, algo, keyUsages) ==
  [name |-> algo, usages |-> keyUsages, raw |-> key]

Block(bytes, i) == SubSeq(bytes, BlockLength * (i - 1) + 1, BlockLength * i)

\* the sums s[i] = seq[1] + ... + seq[i], modulo 256
RECURSIVE PrefixSums(_, _, _)
PrefixSums(seq, i, acc) ==
  IF i > Len(seq) THEN <<>>
  ELSE LET a == (acc + seq[i]) % 256
       IN  <<a>> \o PrefixSums(seq, i + 1, a)

Reverse(seq) == [i \in 1..Len(seq) |-> seq[Len(seq) + 1 - i]]

\* the inverse of PrefixSums: d[1] = seq[1], d[i] = seq[i] - seq[i-1]
Differences(seq) ==
  [i \in 1..Len(seq) |->
    IF i = 1 THEN seq[1] ELSE (seq[i] + 256 - seq[i - 1]) % 256]

\* The block cipher: for each 16-byte key a permutation of the 16-byte blocks.
\* As with AES, a change of one ciphertext bit changes every byte of the
\* decrypted block that follows it and always its last byte, and a block
\* decrypted under another key may or may not end in a valid padding.
AesBlockDecrypt(raw, block) ==
  LET mixed == Reverse(PrefixSums(Reverse(PrefixSums(block, 1, 0)), 1, 0))
  IN  [i \in 1..BlockLength |-> Xor8(mixed[i], raw[i])]

AesBlockEncrypt(raw, block) ==
  LET mixed == [i \in 1..BlockLength |-> Xor8(block[i], raw[i])]
  IN  Differences(Reverse(Differences(Reverse(mixed))))

XorBlock(a, b) == [i \in 1..BlockLength |-> Xor8(a[i], b[i])]

\* Pkcs7Pad with no padding for a whole number of blocks
Pkcs7Pad_NoFullBlock(bytes) ==
  LET k == (BlockLength - (Len(bytes) % BlockLength)) % BlockLength
  IN  bytes \o [i \in 1..k |-> k]

\* PKCS#7: k bytes of value k, k = 16 - (length mod 16)
Pkcs7Pad(bytes) ==
  LET k == BlockLength - (Len(bytes) % BlockLength)
  IN  bytes \o [i \in 1..k |-> k]

Pkcs7Valid(bytes) ==
  /\ Len(bytes) > 0
  /\ LET k == bytes[Len(bytes)]
     IN  /\ k \in 1..BlockLength
         /\ \A i \in (Len(bytes) - k + 1)..Len(bytes) : bytes[i] = k

Pkcs7Unpad(bytes) == SubSeq(bytes, 1, Len(bytes) - bytes[Len(bytes)])

\* CBC chaining: block i is the encryption of (plain block i xor block i-1)
RECURSIVE CbcEncrypt(_, _, _, _)
CbcEncrypt(raw, prev, padded, i) ==
  IF BlockLength * i > Len(padded) THEN <<>>
  ELSE LET c == AesBlockEncrypt(raw, XorBlock(Block(padded, i), prev))
       IN  c \o CbcEncrypt(raw, c, padded, i + 1)

RECURSIVE CbcDecrypt(_, _, _, _)
CbcDecrypt(raw, prev, data, i) ==
  IF BlockLength * i > Len(data) THEN <<>>
  ELSE XorBlock(AesBlockDecrypt(raw, Block(data, i)), prev)
         \o CbcDecrypt(raw, Block(data, i), data, i + 1)

\* crypto.subtle.encrypt({ name: 'AES-CBC', iv }, key, data)
subtleEncrypt(iv, key, data) ==
  IF key.name # "AES-CBC" \/ "encrypt" \notin key.usages
  THEN Thrown("InvalidAccessError")
  ELSE IF Len(iv) # IvLength THEN Thrown("OperationError")
  ELSE Returned(CbcEncrypt(key.raw, iv, Pkcs7Pad(data), 1))

\* crypto.subtle.decrypt({ name: 'AES-CBC', iv }, key, data)
subtleDecrypt(iv, key, data) ==
  IF key.name # "AES-CBC" \/ "decrypt" \notin key.usages
  THEN Thrown("InvalidAccessError")
  ELSE IF Len(iv) # IvLength THEN Thrown("OperationError")
  ELSE IF Len(data) = 0 \/ Len(data) % BlockLength # 0
       THEN Thrown("OperationError")
  ELSE LET padded == CbcDecrypt(key.raw, iv, data, 1)
       IN  IF Pkcs7Valid(padded) THEN Returned(Pkcs7Unpad(padded))
           ELSE Thrown("OperationError")

RECURSIVE SumBytes(_, _)
SumBytes(bytes, i) ==
  IF i > Len(bytes) THEN 0 ELSE (bytes[i] + SumBytes(bytes, i + 1)) % 256

RECURSIVE SumOfSums(_, _, _)
SumOfSums(bytes, i, acc) ==
  IF i > Len(bytes) THEN 0
  ELSE LET a == (acc + bytes[i]) % 256
       IN  (a + SumOfSums(bytes, i + 1, a)) % 256

\* The keyed digest: 32 bytes that depend on every byte of the key and on the
\* message's bytes, their order and their number.
HmacSha256(raw, message) ==
  LET s1 == SumBytes(message, 1)
      s2 == SumOfSums(message, 1, 0)
      n == Len(message)
  IN  [i \in 1..HmacLength |->
        (raw[((i - 1) % Len(raw)) + 1] + (IF i % 2 = 1 THEN s1 ELSE s2) + n + i) % 256]

\* crypto.subtle.sign('HMAC', key, message)
subtleSign(key, message) ==
  IF key.name # "HMAC" \/ "sign" \notin key.usages
  THEN Thrown("InvalidAccessError")
  ELSE Returned(HmacSha256(key.raw, message))

\* crypto.subtle.verify('HMAC', key, hmac, message)
subtleVerify(key, hmac, message) ==
  IF key.name # "HMAC" \/ "verify" \notin key.usages
  THEN Thrown("InvalidAccessError")
  ELSE Returned(hmac = HmacSha256(key.raw, message))

generateHMAC(message, key) == subtleSign(key, message)

\* verifyHMAC whose promise is used without being awaited: always truthy
verifyHMAC_NotAwaited(message, key, hmac) == Returned(TRUE)

\* verifyHMAC that compares the first 16 bytes of the HMAC only
verifyHMAC_FirstHalf(message, key, hmac) ==
  Returned(Slice(hmac, 0, 16) = Slice(HmacSha256(key.raw, message), 0, 16))

verifyHMAC(message, key, hmac) == subtleVerify(key, hmac, message)

aesCbcEncrypt(plainText, iv, key) == subtleEncrypt(iv, key, TextEncode(plainText))

aesCbcDecrypt(cipherText, iv, key) ==
  LET decrypted == subtleDecrypt(iv, key, cipherText)
  IN  IF decrypted.ok THEN Returned(TextDecode(decrypted.val)) ELSE decrypted

----------------------------------------------------------------------------
(* Fernet: the synchronous pieces of src/src/Fernet.ts.                    *)

InvalidSecretError(message) == [class |-> "InvalidSecretError", message |-> message]
\* InvalidTokenError that does not hand its message on to Error
InvalidTokenError_NoMessage(message) ==
  [class |-> "InvalidTokenError", message |-> <<>>]
InvalidTokenError(message) == [class |-> "InvalidTokenError", message |-> message]
FailedDecryptionError(message) ==
  [class |-> "FailedDecryptionError", message |-> message]

initializeKeys(secretKeyBuffer) ==
  LET signingKeyBuffer == Slice(secretKeyBuffer, 0, 16)
      encryptionKeyBuffer == Slice(secretKeyBuffer, 16, Len(secretKeyBuffer))
  IN  [signingKey |-> importKey(signingKeyBuffer, "HMAC", {"verify", "sign"}),
       encryptionKey |->
         importKey(encryptionKeyBuffer, "AES-CBC", {"encrypt", "decrypt"})]

\* importKeys that refuses only the secrets shorter than 32 bytes
importKeys_AtLeast32(secretKey) ==
  LET keyBuffer == fromBase64Url(secretKey)
  IN  IF ~keyBuffer.ok
      THEN Thrown(InvalidSecretError("Invalid secret key encoding."))
      ELSE IF Len(keyBuffer.val) < SecretLength
           THEN Thrown(InvalidSecretError("Invalid secret key length."))
      ELSE Returned(initializeKeys(keyBuffer.val))

importKeys(secretKey) ==
  LET keyBuffer == fromBase64Url(secretKey)
  IN  IF ~keyBuffer.ok
      THEN Thrown(InvalidSecretError("Invalid secret key encoding."))
      ELSE IF Len(keyBuffer.val) # SecretLength
           THEN Thrown(InvalidSecretError("Invalid secret key length."))
      ELSE Returned(initializeKeys(keyBuffer.val))

\* Date.now() is ClockBase * 1000 + nowMs: the variable nowMs counts the
\* milliseconds since the second ClockBase (2023-05-06T12:49:58Z), so that
\* every number of the model fits TLC's 32-bit integers.
ClockBase == 1683377398

\* Math.round(x / 1000) for x = ClockBase * 1000 + ms, ms >= 0: halves round up
RoundDiv1000(ms) == ClockBase + ((ms + 500) \div 1000)

RECURSIVE Pow(_, _)
Pow(b, e) == IF e = 0 THEN 1 ELSE b * Pow(b, e - 1)

RECURSIVE ShiftRightBytes(_, _)
ShiftRightBytes(n, k) == IF k = 0 THEN n ELSE ShiftRightBytes(n \div 256, k - 1)

\* view.setBigUint64(0, BigInt(n), false): 8 bytes, big-endian
BigUint64Bytes(n) ==
  [i \in 1..TimestampLength |-> ShiftRightBytes(n, TimestampLength - i) % 256]

getTimestampBuffer(currentTimeMs) == BigUint64Bytes(RoundDiv1000(currentTimeMs))

\* the length test with <= for <
InvalidLength_OffByOne(tokenBuffer) ==
  \/ Len(tokenBuffer) <= MinTokenLength
  \/ JsRem(Len(tokenBuffer)
           - (VersionLength + TimestampLength + IvLength + HmacLength),
           BlockLength) # 0

\* the length test of doDecryption
InvalidLength(tokenBuffer) ==
  \/ Len(tokenBuffer) < MinTokenLength
  \/ JsRem(Len(tokenBuffer)
           - (VersionLength + TimestampLength + IvLength + HmacLength),
           BlockLength) # 0

\* the fields sliced out of a token buffer
TokenFields(tokenBuffer) ==
  [version |-> Slice(tokenBuffer, 0, 1),
   timestamp |-> Slice(tokenBuffer, 1, 9),
   iv |-> Slice(tokenBuffer, 9, 25),
   cipherText |-> Slice(tokenBuffer, 25, Len(tokenBuffer) - 32),
   hmac |-> SliceTail(tokenBuffer, 32),
   unsignedToken |-> SliceHead(tokenBuffer, 32)]

----------------------------------------------------------------------------
(* The inputs the model draws from.                                        *)

SigningBytes1 == [i \in 1..16 |-> 20 + i]
SigningBytes2 == [i \in 1..16 |-> 3 * i]
EncryptionBytes1 == [i \in 1..16 |-> 10 * i + 1]
\* differs from EncryptionBytes1 in its first byte
EncryptionBytes3 == [i \in 1..16 |-> IF i = 1 THEN 200 ELSE 10 * i + 1]

KeyBytes1 == SigningBytes1 \o EncryptionBytes1
\* the encryption key of KeyBytes1 with another signing key
KeyBytes2 == SigningBytes2 \o EncryptionBytes1
\* the signing key of KeyBytes1 with another encryption key
KeyBytes3 == SigningBytes1 \o EncryptionBytes3

\* what getRandomBytes(32) may return
\* 32 bytes whose text has both of the characters that base64url changes
KeyBytes4 == [i \in 1..32 |-> 255 - 4 * (i % 3)]
RandomSecretBytes == {KeyBytes1, KeyBytes2, KeyBytes4}

StripPadding(text) == SelectSeq(text, LAMBDA c : c # Equals)

\* '#$&(^$$#$$#@#%&**(&*()_?><:;}]{[!@#'
BadEncodingSecret ==
  <<35, 36, 38, 40, 94, 36, 36, 35, 36, 36, 35, 64, 35, 37, 38, 42, 42, 40,
    38, 42, 40, 41, 95, 63, 62, 60, 58, 59, 125, 93, 123, 91, 33, 64, 35>>
\* 'bG9yZW1pcHN1bQ': the ten bytes of 'loremipsum'
LoremIpsum ==
  <<98, 71, 57, 121, 90, 87, 49, 112, 99, 72, 78, 49, 98, 81>>
\* 'invalid_token'
InvalidTokenText ==
  <<105, 110, 118, 97, 108, 105, 100, 95, 116, 111, 107, 101, 110>>

SecretTexts ==
  { toBase64Url(KeyBytes1), StripPadding(toBase64Url(KeyBytes1)),
    toBase64Url(KeyBytes2), toBase64Url(KeyBytes3),
    toBase64Url(KeyBytes1 \o <<7>>), BadEncodingSecret, LoremIpsum }

\* what getRandomBytes(16) may return
RandomIvs == { [i \in 1..16 |-> 100 + i], [i \in 1..16 |-> (37 * i) % 256] }

\* 'hello world'
HelloWorld ==
  <<104, 101, 108, 108, 111, 32, 119, 111, 114, 108, 100>>
\* sixteen characters, 'a' to 'p': 16 bytes of UTF-8
Sixteen == [i \in 1..16 |-> 96 + i]
\* U+00E9, U+1F600 (a surrogate pair) and 'A' to 'K': 17 bytes of UTF-8
Seventeen == <<233, 55357, 56832>> \o [i \in 1..11 |-> 64 + i]

PlainTexts ==
  { <<>>, HelloWorld, Sixteen, Seventeen,
    \* U+FEFF and 'hi'
    <<ByteOrderMark, 104, 105>> }

\* a token of another key, from the repository's tests:
\* 'gAAAAABkVkz28mAO6KAXylTYm6iN5xu5O0oUMQZYSu5b09bywGDj1_qI1X0tnSKUsUe0k5ze
\*  EazuVCfufXI-lxXaydvhRsnvhw=='
ForeignToken ==
  <<103, 65, 65, 65, 65, 65, 66, 107, 86, 107, 122, 50, 56, 109, 65, 79, 54,
    75, 65, 88, 121, 108, 84, 89, 109, 54, 105, 78, 53, 120, 117, 53, 79,
    48, 111, 85, 77, 81, 90, 89, 83, 117, 53, 98, 48, 57, 98, 121, 119, 71,
    68, 106, 49, 95, 113, 73, 49, 88, 48, 116, 110, 83, 75, 85, 115, 85,
    101, 48, 107, 53, 122, 101, 69, 97, 122, 117, 86, 67, 102, 117, 102, 88,
    73, 45, 108, 120, 88, 97, 121, 100, 118, 104, 82, 115, 110, 118, 104,
    119, 61, 61>>

\* how many half seconds the clock advances
MaxTicks == 1

\* the bits of a byte that the tampered tokens flip
TamperBits == {0, 7}

FlipBit(bytes, pos, bit) == [bytes EXCEPT ![pos] = Xor8(@, Pow(2, bit))]

\* the offsets (from 1) of the first and last byte of each ciphertext block
CipherTextEdges(tokenBuffer) ==
  LET first == VersionLength + TimestampLength + IvLength + 1
      blocks == (Len(tokenBuffer) - HmacLength - first + 1) \div BlockLength
  IN  UNION { {first + BlockLength * (b - 1), first + BlockLength * b - 1} :
              b \in 1..blocks }

HmacEdges(tokenBuffer) == {Len(tokenBuffer) - HmacLength + 1, Len(tokenBuffer)}

\* a token buffer signed again after a change, by a holder of the signing key
Resign(unsignedToken, signingKey) ==
  unsignedToken \o generateHMAC(unsignedToken, signingKey).val

\* a token buffer with the timestamp of the epoch, signed again
Backdated(tokenBuffer, signingKey) ==
  Resign([i \in 1..(Len(tokenBuffer) - HmacLength) |->
            IF i \in 2..9 THEN 0 ELSE tokenBuffer[i]],
         signingKey)

\* The token texts a caller may hand to decrypt once the token `tok` has been
\* issued under `keys`: the token itself, the token without its '=', and the
\* token with one field changed.
TokensFrom(tok, keys) ==
  LET buf == fromBase64Url(tok).val
  IN  {tok, StripPadding(tok), tok \o <<33>>}
      \cup { toBase64Url(FlipBit(buf, pos, bit)) :
               pos \in HmacEdges(buf) \cup CipherTextEdges(buf), bit \in TamperBits }
      \cup { toBase64Url(SliceHead(buf, HmacLength) \o [i \in 1..HmacLength |-> 5 * i]),
             toBase64Url([buf EXCEPT ![1] = 129]),
             toBase64Url(Resign([SliceHead(buf, HmacLength) EXCEPT ![1] = 129],
                                keys.signingKey)),
             toBase64Url(Backdated(buf, keys.signingKey)),
             toBase64Url(SliceHead(buf, 1)),
             toBase64Url(SliceHead(buf, BlockLength)) }

FixedTokens == {InvalidTokenText, LoremIpsum, ForeignToken}

----------------------------------------------------------------------------
(* The state: one Fernet instance and the secret text it was made from,    *)
(* the clock, the call in flight, the outcome of the last finished call    *)
(* and the last token encrypt returned, with the value Date.now() returned *)
(* to its call (clockMs).                                                  *)
(* calls and outcomes are the calls that run at the same time on one       *)
(* instance and what each ended with; one caller at a time leaves them as  *)
(* they start.                                                             *)
(* A caller makes one call at a time and takes its outcome before the      *)
(* next.                                                                   *)

NoKey == [name |-> "none", usages |-> {}, raw |-> <<>>]
NoInstance == [signingKey |-> NoKey, encryptionKey |-> NoKey]
Idle == [pc |-> "idle"]
NoOutcome ==
  [op |-> "none", variant |-> "none", input |-> <<>>, keys |-> NoInstance,
   secret |-> <<>>, kind |-> "none", val |-> <<>>, steps |-> <<>>,
   startMs |-> 0, previous |-> <<>>]
NoToken ==
  [token |-> <<>>, plainText |-> <<>>, keys |-> NoInstance, secret |-> <<>>,
   iv |-> <<>>, clockMs |-> 0, variant |-> "none"]

\* the token texts handed to decrypt under the keys: the fixed ones and,
\* once encrypt has returned a token, that token; the texts made from it by
\* tampering go to the keys that made it
TokensFor(keys) ==
  FixedTokens \cup
  (IF issued = NoToken THEN {}
   ELSE IF keys = issued.keys THEN TokensFrom(issued.token, issued.keys)
   ELSE {issued.token})

\* the calls that may run at the same time
MaxCalls == 2
CallIds == 1..MaxCalls

\* the outcome of a call: of the call in flight, with the variant (instance
\* method or static method) and the secret text it was started with, or else
\* of a call made on the instance of the moment; an encrypt call comes with
\* the clock at its start and the token the encrypt call before it returned
Outcome(op, input, keys, kind, val, steps) ==
  [op |-> op,
   variant |-> IF call.pc = "idle" THEN "instance" ELSE call.variant,
   input |-> input, keys |-> keys,
   secret |-> IF call.pc = "idle" THEN secret ELSE call.secret,
   kind |-> kind, val |-> val, steps |-> steps,
   startMs |-> IF op = "encrypt" /\ call.pc # "idle" THEN call.startMs ELSE 0,
   previous |-> IF op = "encrypt" THEN issued.token ELSE <<>>]

Init ==
  /\ fernet = NoInstance
  /\ secret = <<>>
  /\ nowMs = 0
  /\ call = Idle
  /\ outcome = NoOutcome
  /\ issued = NoToken
  /\ calls = [id \in CallIds |-> Idle]
  /\ outcomes = [id \in CallIds |-> NoOutcome]

\* the clock is set back a second
Tick_SetBack ==
  /\ nowMs > -1000 * MaxTicks
  /\ nowMs' = nowMs - 1000
  /\ UNCHANGED <<fernet, secret, call, outcome, issued, calls, outcomes>>

\* half a second passes
Tick ==
  /\ nowMs < 500 * MaxTicks
  /\ nowMs' = nowMs + 500
  /\ UNCHANGED <<fernet, secret, call, outcome, issued, calls, outcomes>>

\* the caller has taken the outcome of its last call and goes on
Continue ==
  /\ call.pc = "idle"
  /\ outcome # NoOutcome
  /\ outcome' = NoOutcome
  /\ UNCHANGED <<fernet, secret, nowMs, call, issued, calls, outcomes>>

\* generateSecret that draws 16 random bytes
GenerateSecret_ShortKey ==
  /\ call.pc = "idle"
  /\ outcome = NoOutcome
  /\ \E randomBytes \in RandomSecretBytes :
       outcome' = Outcome("generateSecret", <<>>, NoInstance, "return",
                          toBase64Url(Slice(randomBytes, 0, 16)), <<>>)
  /\ UNCHANGED <<fernet, secret, nowMs, call, issued, calls, outcomes>>

\* Fernet.generateSecret()
GenerateSecret ==
  /\ call.pc = "idle"
  /\ outcome = NoOutcome
  /\ \E randomBytes \in RandomSecretBytes :
       outcome' = Outcome("generateSecret", <<>>, NoInstance, "return",
                          toBase64Url(randomBytes), <<>>)
  /\ UNCHANGED <<fernet, secret, nowMs, call, issued, calls, outcomes>>

\* Fernet.getInstance(secretKey): the caller keeps the new instance, or, when
\* importKeys throws, the one it had.
GetInstance ==
  /\ call.pc = "idle"
  /\ outcome = NoOutcome
  /\ \E secretKey \in SecretTexts :
       LET keys == importKeys(secretKey)
       IN  IF keys.ok
           THEN /\ fernet' = keys.val
                /\ secret' = secretKey
                /\ outcome' = [Outcome("getInstance", secretKey, keys.val,
                                       "return", <<>>, <<>>)
                                 EXCEPT !.secret = secretKey]
           ELSE /\ fernet' = fernet
                /\ secret' = secret
                /\ outcome' = Outcome("getInstance", secretKey, NoInstance,
                                      "throw", keys.val, <<>>)
  /\ UNCHANGED <<nowMs, call, issued, calls, outcomes>>

\* fernet.encrypt(plainText), up to the await of aesCbcEncrypt
EncryptBegin ==
  /\ call.pc = "idle"
  /\ outcome = NoOutcome
  /\ fernet # NoInstance
  /\ \E plainText \in PlainTexts, iv \in RandomIvs :
       call' = [pc |-> "encrypting", op |-> "encrypt", input |-> plainText,
                variant |-> "instance", secret |-> secret,
                keys |-> fernet, iv |-> iv, startMs |-> nowMs,
                steps |-> <<"iv">>]
  /\ outcome' = NoOutcome
  /\ UNCHANGED <<fernet, secret, nowMs, issued, calls, outcomes>>

\* EncryptAesDone that leaves the version byte out of the token
EncryptAesDone_NoVersion ==
  /\ call.pc = "encrypting"
  /\ LET cipherText == aesCbcEncrypt(call.input, call.iv, call.keys.encryptionKey)
         timestamp == getTimestampBuffer(nowMs)
     IN  IF cipherText.ok
         THEN /\ call' = [call EXCEPT !.pc = "signing",
                            !.steps = @ \o <<"encrypt", "timestamp">>] @@
                          [unsignedToken |-> timestamp \o call.iv \o cipherText.val,
                           clockMs |-> nowMs]
              /\ outcome' = outcome
         ELSE /\ call' = Idle
              /\ outcome' = Outcome("encrypt", call.input, call.keys, "throw",
                                    cipherText.val, call.steps \o <<"encrypt">>)
  /\ UNCHANGED <<fernet, secret, nowMs, issued, calls, outcomes>>

\* doEncryption from the end of aesCbcEncrypt to the await of generateHMAC
EncryptAesDone ==
  /\ call.pc = "encrypting"
  /\ LET cipherText == aesCbcEncrypt(call.input, call.iv, call.keys.encryptionKey)
         version == <<Version>>
         timestamp == getTimestampBuffer(nowMs)
     IN  IF cipherText.ok
         THEN /\ call' = [call EXCEPT !.pc = "signing",
                            !.steps = @ \o <<"encrypt", "timestamp">>] @@
                          [unsignedToken |->
                             version \o timestamp \o call.iv \o cipherText.val,
                           clockMs |-> nowMs]
              /\ outcome' = outcome
         ELSE /\ call' = Idle
              /\ outcome' = Outcome("encrypt", call.input, call.keys, "throw",
                                    cipherText.val, call.steps \o <<"encrypt">>)
  /\ UNCHANGED <<fernet, secret, nowMs, issued, calls, outcomes>>

\* doEncryption from the end of generateHMAC to its return
EncryptSignDone ==
  /\ call.pc = "signing"
  /\ LET hmac == generateHMAC(call.unsignedToken, call.keys.signingKey)
     IN  IF hmac.ok
         THEN LET signedToken == call.unsignedToken \o hmac.val
                  token == toBase64Url(signedToken)
              IN  /\ outcome' = Outcome("encrypt", call.input, call.keys,
                                        "return", token,
                                        call.steps \o <<"hmac", "encode">>)
                  /\ issued' = [token |-> token, plainText |-> call.input,
                                variant |-> call.variant,
                                keys |-> call.keys, secret |-> call.secret,
                                iv |-> call.iv, clockMs |-> call.clockMs]
         ELSE /\ outcome' = Outcome("encrypt", call.input, call.keys, "throw",
                                    hmac.val, call.steps \o <<"hmac">>)
              /\ issued' = issued
  /\ call' = Idle
  /\ UNCHANGED <<fernet, secret, nowMs, calls, outcomes>>

\* fernet.decrypt(fernetToken), up to the await of aesCbcDecrypt
DecryptBegin ==
  /\ call.pc = "idle"
  /\ outcome = NoOutcome
  /\ fernet # NoInstance
  /\ \E fernetToken \in TokensFor(fernet) :
       LET tokenBuffer == fromBase64Url(fernetToken)
       IN  IF ~tokenBuffer.ok
           THEN /\ call' = Idle
                /\ outcome' =
                     Outcome("decrypt", fernetToken, fernet, "throw",
                             InvalidTokenError("Fernet token has invalid encoding."),
                             <<"decode">>)
           ELSE IF InvalidLength(tokenBuffer.val)
           THEN /\ call' = Idle
                /\ outcome' =
                     Outcome("decrypt", fernetToken, fernet, "throw",
                             InvalidTokenError("Fernet token has invalid length."),
                             <<"decode", "length">>)
           ELSE /\ call' = [pc |-> "decrypting", op |-> "decrypt",
                            variant |-> "instance", secret |-> secret,
                            input |-> fernetToken, keys |-> fernet,
                            tokenBuffer |-> tokenBuffer.val,
                            steps |-> <<"decode", "length">>]
                /\ outcome' = NoOutcome
  /\ UNCHANGED <<fernet, secret, nowMs, issued, calls, outcomes>>

\* DecryptAesDone that verifies the HMAC before it looks at the decryption
DecryptAesDone_VerifyFirst ==
  /\ call.pc = "decrypting"
  /\ LET f == TokenFields(call.tokenBuffer)
         plainText == aesCbcDecrypt(f.cipherText, f.iv, call.keys.encryptionKey)
         isTokenVerified == verifyHMAC(f.unsignedToken, call.keys.signingKey, f.hmac)
     IN  IF ~isTokenVerified.val
         THEN /\ call' = Idle
              /\ outcome' =
                   Outcome("decrypt", call.input, call.keys, "throw",
                           InvalidTokenError("Fernet token has invalid signature."),
                           call.steps \o <<"verify">>)
         ELSE IF ~plainText.ok
         THEN /\ call' = Idle
              /\ outcome' =
                   Outcome("decrypt", call.input, call.keys, "throw",
                           FailedDecryptionError("Failed to decrypt the ciphertext."),
                           call.steps \o <<"decrypt">>)
         ELSE /\ call' = [call EXCEPT !.pc = "verifying",
                            !.steps = @ \o <<"decrypt">>] @@
                          [plainText |-> plainText.val]
              /\ outcome' = outcome
  /\ UNCHANGED <<fernet, secret, nowMs, issued, calls, outcomes>>

\* DecryptAesDone that returns the decrypted text without the HMAC check
DecryptAesDone_NoVerify ==
  /\ call.pc = "decrypting"
  /\ LET f == TokenFields(call.tokenBuffer)
         plainText == aesCbcDecrypt(f.cipherText, f.iv, call.keys.encryptionKey)
     IN  IF ~plainText.ok
         THEN outcome' =
                Outcome("decrypt", call.input, call.keys, "throw",
                        FailedDecryptionError("Failed to decrypt the ciphertext."),
                        call.steps \o <<"decrypt">>)
         ELSE outcome' = Outcome("decrypt", call.input, call.keys, "return",
                                 plainText.val, call.steps \o <<"decrypt">>)
  /\ call' = Idle
  /\ UNCHANGED <<fernet, secret, nowMs, issued, calls, outcomes>>

\* doDecryption from the end of aesCbcDecrypt to the await of verifyHMAC
DecryptAesDone ==
  /\ call.pc = "decrypting"
  /\ LET f == TokenFields(call.tokenBuffer)
         plainText == aesCbcDecrypt(f.cipherText, f.iv, call.keys.encryptionKey)
     IN  IF ~plainText.ok
         THEN /\ call' = Idle
              /\ outcome' =
                   Outcome("decrypt", call.input, call.keys, "throw",
                           FailedDecryptionError("Failed to decrypt the ciphertext."),
                           call.steps \o <<"decrypt">>)
         ELSE /\ call' = [call EXCEPT !.pc = "verifying",
                            !.steps = @ \o <<"decrypt">>] @@
                          [plainText |-> plainText.val]
              /\ outcome' = outcome
  /\ UNCHANGED <<fernet, secret, nowMs, issued, calls, outcomes>>

\* DecryptVerifyDone with the test of isTokenVerified inverted
DecryptVerifyDone_Inverted ==
  /\ call.pc = "verifying"
  /\ LET f == TokenFields(call.tokenBuffer)
         isTokenVerified == verifyHMAC(f.unsignedToken, call.keys.signingKey, f.hmac)
     IN  IF isTokenVerified.val
         THEN outcome' =
                Outcome("decrypt", call.input, call.keys, "throw",
                        InvalidTokenError("Fernet token has invalid signature."),
                        call.steps \o <<"verify">>)
         ELSE outcome' = Outcome("decrypt", call.input, call.keys, "return",
                                 call.plainText, call.steps \o <<"verify">>)
  /\ call' = Idle
  /\ UNCHANGED <<fernet, secret, nowMs, issued, calls, outcomes>>

\* DecryptVerifyDone that refuses a token older than a minute by the clock
DecryptVerifyDone_TimeToLive ==
  /\ call.pc = "verifying"
  /\ LET f == TokenFields(call.tokenBuffer)
         isTokenVerified == verifyHMAC(f.unsignedToken, call.keys.signingKey, f.hmac)
         created == ((f.timestamp[5] * 256 + f.timestamp[6]) * 256
                       + f.timestamp[7]) * 256 + f.timestamp[8]
         now == RoundDiv1000(nowMs)
     IN  IF ~isTokenVerified.val
         THEN outcome' =
                Outcome("decrypt", call.input, call.keys, "throw",
                        InvalidTokenError("Fernet token has invalid signature."),
                        call.steps \o <<"verify">>)
         ELSE IF created + 60 < now
         THEN outcome' =
                Outcome("decrypt", call.input, call.keys, "throw",
                        InvalidTokenError("Fernet token has expired."),
                        call.steps \o <<"verify">>)
         ELSE outcome' = Outcome("decrypt", call.input, call.keys, "return",
                                 call.plainText, call.steps \o <<"verify">>)
  /\ call' = Idle
  /\ UNCHANGED <<fernet, secret, nowMs, issued, calls, outcomes>>

\* doDecryption from the end of verifyHMAC to its return
DecryptVerifyDone ==
  /\ call.pc = "verifying"
  /\ LET f == TokenFields(call.tokenBuffer)
         isTokenVerified == verifyHMAC(f.unsignedToken, call.keys.signingKey, f.hmac)
     IN  IF ~isTokenVerified.ok
         THEN outcome' = Outcome("decrypt", call.input, call.keys, "throw",
                                 isTokenVerified.val, call.steps \o <<"verify">>)
         ELSE IF ~isTokenVerified.val
         THEN outcome' =
                Outcome("decrypt", call.input, call.keys, "throw",
                        InvalidTokenError("Fernet token has invalid signature."),
                        call.steps \o <<"verify">>)
         ELSE outcome' = Outcome("decrypt", call.input, call.keys, "return",
                                 call.plainText, call.steps \o <<"verify">>)
  /\ call' = Idle
  /\ UNCHANGED <<fernet, secret, nowMs, issued, calls, outcomes>>

Next ==
  \/ Tick
  \/ Continue
  \/ GenerateSecret
  \/ GetInstance
  \/ EncryptBegin
  \/ EncryptAesDone
  \/ EncryptSignDone
  \/ DecryptBegin
  \/ DecryptAesDone
  \/ DecryptVerifyDone

Spec == Init /\ [][Next]_vars

----------------------------------------------------------------------------
(* The static methods: Fernet.encrypt(plainText, secretKey) and            *)
(* Fernet.decrypt(fernetToken, secretKey) import the keys of the secret    *)
(* they are given and go on as the instance methods do, in doEncryption    *)
(* and doDecryption.  SpecStatic has one caller that uses both variants.   *)

\* Fernet.encrypt(plainText, secretKey), up to the await of aesCbcEncrypt
StaticEncryptBegin ==
  /\ call.pc = "idle"
  /\ outcome = NoOutcome
  /\ \E plainText \in PlainTexts, secretKey \in SecretTexts, iv \in RandomIvs :
       LET keys == importKeys(secretKey)
       IN  IF ~keys.ok
           THEN /\ call' = Idle
                /\ outcome' =
                     [Outcome("encrypt", plainText, NoInstance, "throw", keys.val,
                              <<"importKeys">>)
                        EXCEPT !.variant = "static", !.secret = secretKey]
           ELSE /\ call' = [pc |-> "encrypting", op |-> "encrypt",
                            input |-> plainText,
                            variant |-> "static", secret |-> secretKey,
                            keys |-> keys.val, iv |-> iv, startMs |-> nowMs,
                            steps |-> <<"importKeys", "iv">>]
                /\ outcome' = NoOutcome
  /\ UNCHANGED <<fernet, secret, nowMs, issued, calls, outcomes>>

\* Fernet.decrypt(fernetToken, secretKey), up to the await of aesCbcDecrypt
StaticDecryptBegin ==
  /\ call.pc = "idle"
  /\ outcome = NoOutcome
  /\ \E secretKey \in SecretTexts :
     \E fernetToken \in TokensFor(importKeys(secretKey).val) :
       LET keys == importKeys(secretKey)
           tokenBuffer == fromBase64Url(fernetToken)
           Failed(val, steps) ==
             [Outcome("decrypt", fernetToken,
                      IF keys.ok THEN keys.val ELSE NoInstance, "throw", val, steps)
                EXCEPT !.variant = "static", !.secret = secretKey]
       IN  IF ~keys.ok
           THEN /\ call' = Idle
                /\ outcome' = Failed(keys.val, <<"importKeys">>)
           ELSE IF ~tokenBuffer.ok
           THEN /\ call' = Idle
                /\ outcome' =
                     Failed(InvalidTokenError("Fernet token has invalid encoding."),
                            <<"importKeys", "decode">>)
           ELSE IF InvalidLength(tokenBuffer.val)
           THEN /\ call' = Idle
                /\ outcome' =
                     Failed(InvalidTokenError("Fernet token has invalid length."),
                            <<"importKeys", "decode", "length">>)
           ELSE /\ call' = [pc |-> "decrypting", op |-> "decrypt",
                            variant |-> "static", secret |-> secretKey,
                            input |-> fernetToken, keys |-> keys.val,
                            tokenBuffer |-> tokenBuffer.val,
                            steps |-> <<"importKeys", "decode", "length">>]
                /\ outcome' = NoOutcome
  /\ UNCHANGED <<fernet, secret, nowMs, issued, calls, outcomes>>

NextStatic ==
  \/ Continue
  \/ GetInstance
  \/ EncryptBegin
  \/ StaticEncryptBegin
  \/ EncryptAesDone
  \/ EncryptSignDone
  \/ DecryptBegin
  \/ StaticDecryptBegin
  \/ DecryptAesDone
  \/ DecryptVerifyDone

SpecStatic == Init /\ [][NextStatic]_vars

----------------------------------------------------------------------------
(* A call run alone, from its start to its end with nothing in between:    *)
(* doEncryption with the IV it drew and the clock reading it took, and     *)
(* doDecryption.                                                           *)

doEncryption(plainText, signingKey, encryptionKey, iv, currentTimeMs) ==
  LET cipherText == aesCbcEncrypt(plainText, iv, encryptionKey)
      version == <<Version>>
      timestamp == getTimestampBuffer(currentTimeMs)
      unsignedToken == version \o timestamp \o iv \o cipherText.val
      hmac == generateHMAC(unsignedToken, signingKey)
  IN  IF ~cipherText.ok THEN cipherText
      ELSE IF ~hmac.ok THEN hmac
      ELSE Returned(toBase64Url(unsignedToken \o hmac.val))

doDecryption(fernetToken, signingKey, encryptionKey) ==
  LET tokenBuffer == fromBase64Url(fernetToken)
      f == TokenFields(tokenBuffer.val)
      plainText == aesCbcDecrypt(f.cipherText, f.iv, encryptionKey)
      isTokenVerified == verifyHMAC(f.unsignedToken, signingKey, f.hmac)
  IN  IF ~tokenBuffer.ok
      THEN Thrown(InvalidTokenError("Fernet token has invalid encoding."))
      ELSE IF InvalidLength(tokenBuffer.val)
      THEN Thrown(InvalidTokenError("Fernet token has invalid length."))
      ELSE IF ~plainText.ok
      THEN Thrown(FailedDecryptionError("Failed to decrypt the ciphertext."))
      ELSE IF ~isTokenVerified.ok THEN isTokenVerified
      ELSE IF ~isTokenVerified.val
      THEN Thrown(InvalidTokenError("Fernet token has invalid signature."))
      ELSE plainText

----------------------------------------------------------------------------
(* Calls that run at the same time on one instance.  An async method runs  *)
(* until its next await and then gives way: the steps below are the        *)
(* stretches of doEncryption and doDecryption between two awaits, one call *)
(* at a time, in any order across the calls.  Each call keeps the keys it  *)
(* was handed (this.signingKey, this.encryptionKey at the time of the      *)
(* call), its IV and its buffers in variables of its own.                  *)

\* the instance the calls share: getInstance(secretKey) has returned it
InitConcurrent ==
  /\ secret = toBase64Url(KeyBytes1)
  /\ fernet = importKeys(secret).val
  /\ nowMs = 0
  /\ call = Idle
  /\ outcome = NoOutcome
  /\ issued = NoToken
  /\ calls = [id \in CallIds |-> Idle]
  /\ outcomes = [id \in CallIds |-> NoOutcome]

\* the messages handed to the calls, each with the IV its call draws
ConcurrentMessages ==
  LET iv1 == CHOOSE iv \in RandomIvs : TRUE
      iv2 == CHOOSE iv \in RandomIvs : iv # iv1
  IN  {[plainText |-> HelloWorld, iv |-> iv1],
       [plainText |-> Seventeen, iv |-> iv2]}

\* token texts handed to the calls: a token of the instance, the same with a
\* bit of its HMAC flipped, and a text that is no base64
ConcurrentTokens ==
  LET token == doEncryption(HelloWorld, fernet.signingKey, fernet.encryptionKey,
                            CHOOSE iv \in RandomIvs : TRUE, 0).val
      buf == fromBase64Url(token).val
  IN  {token, toBase64Url(FlipBit(buf, Len(buf), 0)), InvalidTokenText}

\* what a call ended with, the IV it drew and the clock reading it took
Settled(c, kind, val) ==
  [op |-> c.op, input |-> c.input, keys |-> c.keys, kind |-> kind, val |-> val,
   iv |-> c.iv, clockMs |-> c.clockMs]

\* fernet.encrypt(plainText), up to the await of aesCbcEncrypt
ConcurrentEncryptBegin(id) ==
  /\ calls[id].pc = "idle"
  /\ outcomes[id] = NoOutcome
  /\ \E message \in ConcurrentMessages :
       calls' = [calls EXCEPT ![id] =
                   [pc |-> "encrypting", id |-> id, op |-> "encrypt",
                    input |-> message.plainText, keys |-> fernet,
                    iv |-> message.iv, clockMs |-> 0, unsignedToken |-> <<>>]]
  /\ UNCHANGED <<fernet, secret, nowMs, call, outcome, issued, outcomes>>

\* the step after aesCbcEncrypt with the IV kept in a place all calls share:
\* the token gets the IV of the call that drew one last
ConcurrentEncryptAesDone_SharedIv(id) ==
  /\ calls[id].pc = "encrypting"
  /\ LET c == calls[id]
         last == CHOOSE j \in CallIds :
                   /\ calls[j].pc \in {"encrypting", "signing"}
                   /\ \A k \in CallIds :
                        calls[k].pc \in {"encrypting", "signing"} => k <= j
         cipherText == aesCbcEncrypt(c.input, c.iv, c.keys.encryptionKey)
         version == <<Version>>
         timestamp == getTimestampBuffer(nowMs)
     IN  /\ calls' = [calls EXCEPT ![id] =
                        [c EXCEPT !.pc = "signing", !.clockMs = nowMs,
                                  !.unsignedToken =
                                    version \o timestamp \o calls[last].iv
                                      \o cipherText.val]]
         /\ outcomes' = outcomes
  /\ UNCHANGED <<fernet, secret, nowMs, call, outcome, issued>>

\* doEncryption from the end of aesCbcEncrypt to the await of generateHMAC
ConcurrentEncryptAesDone(id) ==
  /\ calls[id].pc = "encrypting"
  /\ LET c == calls[id]
         cipherText == aesCbcEncrypt(c.input, c.iv, c.keys.encryptionKey)
         version == <<Version>>
         timestamp == getTimestampBuffer(nowMs)
     IN  IF cipherText.ok
         THEN /\ calls' = [calls EXCEPT ![id] =
                             [c EXCEPT !.pc = "signing", !.clockMs = nowMs,
                                       !.unsignedToken =
                                         version \o timestamp \o c.iv
                                           \o cipherText.val]]
              /\ outcomes' = outcomes
         ELSE /\ calls' = [calls EXCEPT ![id] = Idle]
              /\ outcomes' = [outcomes EXCEPT ![id] =
                                Settled(c, "throw", cipherText.val)]
  /\ UNCHANGED <<fernet, secret, nowMs, call, outcome, issued>>

\* doEncryption from the end of generateHMAC to its return
ConcurrentEncryptSignDone(id) ==
  /\ calls[id].pc = "signing"
  /\ LET c == calls[id]
         hmac == generateHMAC(c.unsignedToken, c.keys.signingKey)
     IN  outcomes' = [outcomes EXCEPT ![id] =
                        IF hmac.ok
                        THEN Settled(c, "return",
                                     toBase64Url(c.unsignedToken \o hmac.val))
                        ELSE Settled(c, "throw", hmac.val)]
  /\ calls' = [calls EXCEPT ![id] = Idle]
  /\ UNCHANGED <<fernet, secret, nowMs, call, outcome, issued>>

\* fernet.decrypt(fernetToken), up to the await of aesCbcDecrypt
ConcurrentDecryptBegin(id) ==
  /\ calls[id].pc = "idle"
  /\ outcomes[id] = NoOutcome
  /\ \E fernetToken \in ConcurrentTokens :
       LET tokenBuffer == fromBase64Url(fernetToken)
           c == [pc |-> "decrypting", id |-> id, op |-> "decrypt",
                 input |-> fernetToken, keys |-> fernet, iv |-> <<>>,
                 clockMs |-> 0, tokenBuffer |-> tokenBuffer.val,
                 plainText |-> <<>>]
       IN  IF ~tokenBuffer.ok
           THEN /\ calls' = calls
                /\ outcomes' = [outcomes EXCEPT ![id] =
                     Settled(c, "throw",
                             InvalidTokenError("Fernet token has invalid encoding."))]
           ELSE IF InvalidLength(tokenBuffer.val)
           THEN /\ calls' = calls
                /\ outcomes' = [outcomes EXCEPT ![id] =
                     Settled(c, "throw",
                             InvalidTokenError("Fernet token has invalid length."))]
           ELSE /\ calls' = [calls EXCEPT ![id] = c]
                /\ outcomes' = outcomes
  /\ UNCHANGED <<fernet, secret, nowMs, call, outcome, issued>>

\* doDecryption from the end of aesCbcDecrypt to the await of verifyHMAC
ConcurrentDecryptAesDone(id) ==
  /\ calls[id].pc = "decrypting"
  /\ LET c == calls[id]
         f == TokenFields(c.tokenBuffer)
         plainText == aesCbcDecrypt(f.cipherText, f.iv, c.keys.encryptionKey)
     IN  IF ~plainText.ok
         THEN /\ calls' = [calls EXCEPT ![id] = Idle]
              /\ outcomes' = [outcomes EXCEPT ![id] =
                   Settled(c, "throw",
                           FailedDecryptionError("Failed to decrypt the ciphertext."))]
         ELSE /\ calls' = [calls EXCEPT ![id] =
                             [c EXCEPT !.pc = "verifying",
                                       !.plainText = plainText.val]]
              /\ outcomes' = outcomes
  /\ UNCHANGED <<fernet, secret, nowMs, call, outcome, issued>>

\* doDecryption from the end of verifyHMAC to its return
ConcurrentDecryptVerifyDone(id) ==
  /\ calls[id].pc = "verifying"
  /\ LET c == calls[id]
         f == TokenFields(c.tokenBuffer)
         isTokenVerified == verifyHMAC(f.unsignedToken, c.keys.signingKey, f.hmac)
     IN  outcomes' = [outcomes EXCEPT ![id] =
           IF ~isTokenVerified.ok THEN Settled(c, "throw", isTokenVerified.val)
           ELSE IF ~isTokenVerified.val
           THEN Settled(c, "throw",
                        InvalidTokenError("Fernet token has invalid signature."))
           ELSE Settled(c, "return", c.plainText)]
  /\ calls' = [calls EXCEPT ![id] = Idle]
  /\ UNCHANGED <<fernet, secret, nowMs, call, outcome, issued>>

NextConcurrent ==
  \/ Tick
  \/ \E id \in CallIds : ConcurrentEncryptBegin(id)
  \/ \E id \in CallIds : ConcurrentEncryptAesDone(id)
  \/ \E id \in CallIds : ConcurrentEncryptSignDone(id)
  \/ \E id \in CallIds : ConcurrentDecryptBegin(id)
  \/ \E id \in CallIds : ConcurrentDecryptAesDone(id)
  \/ \E id \in CallIds : ConcurrentDecryptVerifyDone(id)

SpecConcurrent == InitConcurrent /\ [][NextConcurrent]_vars

----------------------------------------------------------------------------
(* toBase64Url and fromBase64Url on their own: a caller encodes a byte     *)
(* string and decodes the text it got, or a text made from it.             *)

\* the longest byte string encoded
MaxBytes == 3

\* bytes that give every kind of character: 'A', letters, and the two that
\* base64url writes as '-' and '_'
ByteValues == {0, 97, 251, 255}

ByteStrings == UNION {[1..n -> ByteValues] : n \in 0..MaxBytes}

\* '%%invalid*string!@#$'
InvalidString ==
  <<37, 37, 105, 110, 118, 97, 108, 105, 100, 42, 115, 116, 114, 105, 110, 103,
    33, 64, 35, 36>>

\* the texts made from an encoded text: the text, the same without padding,
\* in the standard alphabet ('+' and '/'), after a space, before a line
\* feed, before a '%', and a text of other characters
TextsFrom(text) ==
  {text,
   StripPadding(text),
   ReplaceAll(ReplaceAll(text, Minus, Plus), Underscore, Slash),
   <<32>> \o text,
   text \o <<10>>,
   text \o <<37>>,
   InvalidString}

\* toBase64Url(bytes)
ToBase64Url ==
  /\ call.pc = "idle"
  /\ outcome = NoOutcome
  /\ \E bytes \in ByteStrings :
       outcome' = [op |-> "toBase64Url", input |-> bytes, kind |-> "return",
                   val |-> toBase64Url(bytes), bytes |-> bytes]
  /\ UNCHANGED <<fernet, secret, nowMs, call, issued, calls, outcomes>>

\* fromBase64Url(base64url) on a text made from the one toBase64Url returned
FromBase64Url ==
  /\ call.pc = "idle"
  /\ outcome.op = "toBase64Url"
  /\ \E base64url \in TextsFrom(outcome.val) :
       LET decoded == fromBase64Url(base64url)
       IN  outcome' = [op |-> "fromBase64Url", input |-> base64url,
                       kind |-> IF decoded.ok THEN "return" ELSE "throw",
                       val |-> decoded.val, bytes |-> outcome.bytes]
  /\ UNCHANGED <<fernet, secret, nowMs, call, issued, calls, outcomes>>

NextBase64 ==
  \/ ToBase64Url
  \/ FromBase64Url
  \/ Continue

SpecBase64 == Init /\ [][NextBase64]_vars

----------------------------------------------------------------------------
(* What the properties below read off a state.                             *)

Throws(o, class, message) ==
  /\ o.kind = "throw"
  /\ o.val = [class |-> class, message |-> message]

ThrowsEncoding(o) ==
  Throws(o, "InvalidTokenError", "Fernet token has invalid encoding.")
ThrowsLength(o) ==
  Throws(o, "InvalidTokenError", "Fernet token has invalid length.")
ThrowsDecryption(o) ==
  Throws(o, "FailedDecryptionError", "Failed to decrypt the ciphertext.")
ThrowsSignature(o) ==
  Throws(o, "InvalidTokenError", "Fernet token has invalid signature.")

\* a decrypt call has finished
Decrypted == outcome.op = "decrypt"

\* the bytes of the token text handed to the finished decrypt call
InputBuffer == fromBase64Url(outcome.input)

\* the bytes of the last token encrypt returned
IssuedBuffer == fromBase64Url(issued.token).val

\* the finished decrypt call ran under the keys that made the last token
SameKeys == issued # NoToken /\ outcome.keys = issued.keys

\* two byte sequences of one length that differ in one bit, at an offset
\* (from 1) in lo..hi
OneBitApart(a, b, lo, hi) ==
  /\ Len(a) = Len(b)
  /\ \E p \in lo..hi :
       /\ Xor8(a[p], b[p]) \in {Pow(2, k) : k \in 0..7}
       /\ \A q \in 1..Len(a) : q # p => a[q] = b[q]

----------------------------------------------------------------------------
(* C1.  Round trip: decrypting, under the keys that made it, the token     *)
(* that encrypt returned for the message m returns exactly m, for every    *)
(* message m, the empty one included.                                      *)

C1_RoundTrip ==
  (Decrypted /\ SameKeys /\ outcome.input = issued.token)
    => (outcome.kind = "return" /\ outcome.val = issued.plainText)

----------------------------------------------------------------------------
(* C2.  decrypt validates in the order base64url decoding, length check,   *)
(* AES-CBC decryption, HMAC verification, and stops at the first step that *)
(* fails: the error it reports is that step's, whatever else is wrong with *)
(* the token, and no later step has run.                                   *)

\* the steps of decrypt, in order, with what each reports when it fails
FirstFailure(text, keys) ==
  LET buf == fromBase64Url(text)
      f == TokenFields(buf.val)
  IN  IF ~buf.ok THEN "decode"
      ELSE IF Len(buf.val) < 73 \/ (Len(buf.val) - 57) % 16 # 0 THEN "length"
      ELSE IF ~subtleDecrypt(f.iv, keys.encryptionKey, f.cipherText).ok
           THEN "decrypt"
      ELSE IF ~subtleVerify(keys.signingKey, f.hmac, f.unsignedToken).val
           THEN "verify"
      ELSE "none"

----------------------------------------------------------------------------
(* C3.  A wrong key never succeeds silently: a token made under the secret *)
(* s1 and decrypted under a valid secret s2 different from s1 fails with   *)
(* FailedDecryption or InvalidToken(signature) and returns no message.     *)

\* decrypt of the last token, as issued, has finished on the instance of
\* another secret than the one the token was made under
WrongSecretCase ==
  /\ Decrypted
  /\ issued # NoToken
  /\ outcome.input = issued.token
  /\ outcome.secret # issued.secret

SigningHalf(secretKey) == Slice(fromBase64Url(secretKey).val, 0, 16)

\* the claim as written: for every two different secrets
C3_DifferentSecretFails ==
  WrongSecretCase => (ThrowsDecryption(outcome) \/ ThrowsSignature(outcome))

\* the claim as amended: for every two secrets whose signing keys, the first
\* 16 decoded bytes, differ
C3_DifferentSigningKeyFails ==
  (WrongSecretCase /\ SigningHalf(outcome.secret) # SigningHalf(issued.secret))
    => (ThrowsDecryption(outcome) \/ ThrowsSignature(outcome))

C3_Witness ==
  /\ WrongSecretCase
  /\ SigningHalf(outcome.secret) # SigningHalf(issued.secret)
  /\ ThrowsSignature(outcome)

----------------------------------------------------------------------------
(* C4.  HMAC tampering: a valid token whose last 32 decoded bytes are      *)
(* replaced by any other 32 bytes, a single flipped bit included, the rest *)
(* unchanged, is refused under the same key with InvalidToken(signature).  *)

\* the finished decrypt call was given the last token with another HMAC field
HmacTampered ==
  /\ Decrypted
  /\ SameKeys
  /\ InputBuffer.ok
  /\ Len(InputBuffer.val) = Len(IssuedBuffer)
  /\ SliceHead(InputBuffer.val, 32) = SliceHead(IssuedBuffer, 32)
  /\ SliceTail(InputBuffer.val, 32) # SliceTail(IssuedBuffer, 32)

C4_TamperedHmacRefused == HmacTampered => ThrowsSignature(outcome)

\* the last bit of the HMAC field was flipped
C4_Witness ==
  /\ HmacTampered
  /\ OneBitApart(InputBuffer.val, IssuedBuffer, Len(IssuedBuffer), Len(IssuedBuffer))
  /\ ThrowsSignature(outcome)

----------------------------------------------------------------------------
(* C5.  Ciphertext tampering: a valid token with one bit flipped inside    *)
(* its ciphertext field (decoded bytes 25 .. len-33), every other byte     *)
(* unchanged, is refused under the same key with FailedDecryption.         *)

\* the finished decrypt call was given the last token with one ciphertext bit
\* flipped
CipherTextBitFlipped ==
  /\ Decrypted
  /\ SameKeys
  /\ InputBuffer.ok
  /\ OneBitApart(InputBuffer.val, IssuedBuffer, 26, Len(IssuedBuffer) - 32)

\* the claim as written
C5_FlippedCipherTextFailsDecryption ==
  CipherTextBitFlipped => ThrowsDecryption(outcome)

\* the padding of the tampered ciphertext is still valid under the AES key
TamperedPaddingValid ==
  LET fields == TokenFields(InputBuffer.val)
  IN  subtleDecrypt(fields.iv, outcome.keys.encryptionKey, fields.cipherText).ok

\* the claim as amended: refused with FailedDecryption when the changed
\* ciphertext no longer decrypts to a well-padded text, and with
\* InvalidToken(signature) when it still does
C5_FlippedCipherTextRefused ==
  CipherTextBitFlipped =>
    IF TamperedPaddingValid THEN ThrowsSignature(outcome)
                            ELSE ThrowsDecryption(outcome)

\* a flipped bit in the first of two ciphertext blocks leaves the padding of
\* the second one valid
C5_Witness ==
  /\ CipherTextBitFlipped
  /\ issued.plainText = Seventeen
  /\ TamperedPaddingValid
  /\ ThrowsSignature(outcome)

----------------------------------------------------------------------------
(* C6.  The length check is exact: once the text is base64url-decoded,     *)
(* decrypt fails with InvalidToken(length) exactly when the decoded length *)
(* is below 73 or (length - 57) mod 16 is not 0; 72 bytes or fewer are     *)
(* refused for their length, and 73 bytes pass on to the decryption.       *)

C6_LengthCheckExact ==
  (Decrypted /\ InputBuffer.ok) =>
    LET n == Len(InputBuffer.val)
    IN  /\ ThrowsLength(outcome) <=> (n < 73 \/ (n - 57) % 16 # 0)
        /\ n <= 72 => ThrowsLength(outcome)
        /\ n = 73 => (Len(outcome.steps) >= 3 /\ outcome.steps[3] = "decrypt")

\* a buffer of 72 bytes has been refused for its length
C6_Witness ==
  /\ Decrypted
  /\ InputBuffer.ok
  /\ Len(InputBuffer.val) = 72
  /\ ThrowsLength(outcome)

----------------------------------------------------------------------------
(* C7.  Secret parsing: getInstance fails with InvalidSecret(encoding)     *)
(* when the secret text cannot be base64url-decoded, otherwise with        *)
(* InvalidSecret(length) when the decoded secret is not exactly 32 bytes,  *)
(* and otherwise succeeds; no key is bound when it fails.                  *)

C7_SecretParsing ==
  outcome.op = "getInstance" =>
    LET buf == fromBase64Url(outcome.input)
    IN  /\ IF ~buf.ok
           THEN Throws(outcome, "InvalidSecretError", "Invalid secret key encoding.")
           ELSE IF Len(buf.val) # 32
           THEN Throws(outcome, "InvalidSecretError", "Invalid secret key length.")
           ELSE /\ outcome.kind = "return"
                /\ outcome.keys.signingKey.raw = Slice(buf.val, 0, 16)
                /\ outcome.keys.encryptionKey.raw = Slice(buf.val, 16, 32)
                /\ fernet = outcome.keys
        /\ outcome.kind = "throw" => outcome.keys = NoInstance

\* a secret that decodes, to more than 32 bytes, has been refused for its length
C7_Witness ==
  /\ outcome.op = "getInstance"
  /\ fromBase64Url(outcome.input).ok
  /\ Len(fromBase64Url(outcome.input).val) > 32
  /\ Throws(outcome, "InvalidSecretError", "Invalid secret key length.")

----------------------------------------------------------------------------
(* C8.  Every token encrypt returns has the Fernet layout: decoded, its    *)
(* first byte is 0x80, its length is at least 73 with (length - 57) mod 16 *)
(* = 0, and its last 32 bytes are the HMAC-SHA256, under the signing key,  *)
(* of all the bytes before them; so it passes the length check and the     *)
(* signature check of decrypt under the same key.                          *)

C8_TokenLayout ==
  (outcome.op = "encrypt" /\ outcome.kind = "return") =>
    LET buf == fromBase64Url(outcome.val)
        n == Len(buf.val)
    IN  /\ buf.ok
        /\ n >= 73
        /\ (n - 57) % 16 = 0
        /\ buf.val[1] = 128
        /\ SubSeq(buf.val, n - 31, n)
             = HmacSha256(outcome.keys.signingKey.raw, SubSeq(buf.val, 1, n - 32))
        /\ ~InvalidLength(buf.val)
        /\ verifyHMAC(TokenFields(buf.val).unsignedToken, outcome.keys.signingKey,
                      TokenFields(buf.val).hmac).val

\* encrypt has returned a token for a message of more than one block
C8_Witness ==
  /\ outcome.op = "encrypt"
  /\ outcome.kind = "return"
  /\ Len(fromBase64Url(outcome.val).val) > 73

----------------------------------------------------------------------------
(* C9.  Version check: decrypt ensures that the first byte of the decoded  *)
(* token is 0x80; a token with another first byte is refused, also when    *)
(* its HMAC was computed over the changed bytes with the right signing key.*)

C9_VersionChecked ==
  (Decrypted /\ InputBuffer.ok /\ Len(InputBuffer.val) >= 1
     /\ InputBuffer.val[1] # 128)
    => outcome.kind = "throw"

----------------------------------------------------------------------------
(* C10.  The ciphertext length follows PKCS#7: for a message of n UTF-8    *)
(* bytes the ciphertext field has 16 * (floor(n / 16) + 1) bytes, so the   *)
(* pad length 16 - (n mod 16) is in 1..16, a message of a multiple of 16   *)
(* bytes gets a whole block more, and the token of the empty message       *)
(* decodes to 73 bytes.                                                    *)

C10_CipherTextLength ==
  (outcome.op = "encrypt" /\ outcome.kind = "return") =>
    LET buf == fromBase64Url(outcome.val).val
        n == Len(TextEncode(outcome.input))
        c == Len(buf) - 57
    IN  /\ c = 16 * ((n \div 16) + 1)
        /\ (c - n) \in 1..16
        /\ (c - n) = 16 - (n % 16)
        /\ n % 16 = 0 => c = n + 16
        /\ outcome.input = <<>> => Len(buf) = 73

\* encrypt has returned a token for a message of exactly one block
C10_Witness ==
  /\ outcome.op = "encrypt"
  /\ outcome.kind = "return"
  /\ Len(TextEncode(outcome.input)) = 16
  /\ Len(fromBase64Url(outcome.val).val) = 57 + 32

----------------------------------------------------------------------------
(* C11.  The timestamp field of a token made by encrypt, read as an 8-byte *)
(* big-endian unsigned integer, is the number of whole seconds between the *)
(* epoch and the clock reading taken at creation, floor(nowMs / 1000), and *)
(* is never a second that has not been reached yet.                        *)

\* an 8-byte big-endian field as a number (the fields met here fit 31 bits)
ReadBigUint64(bytes) ==
  IF \E i \in 1..4 : bytes[i] # 0
  THEN -1
  ELSE ((bytes[5] * 256 + bytes[6]) * 256 + bytes[7]) * 256 + bytes[8]

\* the timestamp field of the last token encrypt returned, in seconds
IssuedTimestamp == ReadBigUint64(TokenFields(IssuedBuffer).timestamp)

\* whole seconds from the epoch to a clock reading
WholeSeconds(ms) == ClockBase + (ms \div 1000)

C11_TimestampIsFloor ==
  issued # NoToken =>
    /\ IssuedTimestamp = WholeSeconds(issued.clockMs)
    /\ (IssuedTimestamp - ClockBase) * 1000 <= issued.clockMs

----------------------------------------------------------------------------
(* C12.  The static methods are equivalent to the instance methods: for    *)
(* every secret s, message m and token text t, Fernet.encrypt(m, s) and    *)
(* Fernet.decrypt(t, s) end as getInstance(s) followed by encrypt(m) or    *)
(* decrypt(t) does, up to the IV and the clock reading, and a token made   *)
(* by either encrypt under s is decrypted to m by either decrypt under s.  *)

\* what a finished call returned or threw
Result(o) == [ok |-> o.kind = "return", val |-> o.val]

\* getInstance(s) followed by encrypt(m), with the IV and the clock reading
\* of the call, or by decrypt(t)
ViaInstance(o) ==
  LET keys == importKeys(o.secret)
  IN  IF ~keys.ok THEN keys
      ELSE IF o.op = "encrypt"
      THEN doEncryption(o.input, keys.val.signingKey, keys.val.encryptionKey,
                        issued.iv, issued.clockMs)
      ELSE doDecryption(o.input, keys.val.signingKey, keys.val.encryptionKey)

\* a finished encrypt that failed left no token: only its secret decides
Finished(o) ==
  /\ o.op \in {"encrypt", "decrypt"}
  /\ (o.op = "encrypt" /\ o.kind = "return") => o.val = issued.token

\* both variants end as getInstance followed by the instance method
C12_SameOutcome ==
  Finished(outcome) =>
    IF outcome.op = "encrypt" /\ outcome.kind = "throw"
    THEN Result(outcome) = importKeys(outcome.secret)
    ELSE Result(outcome) = ViaInstance(outcome)

\* a token of either encrypt, handed to either decrypt under the same secret
CrossDecrypted ==
  /\ Decrypted
  /\ issued # NoToken
  /\ outcome.input = issued.token
  /\ outcome.secret = issued.secret

\* the claim: the same outcome, and the message back whatever the variants
C12_StaticEquivalent ==
  /\ C12_SameOutcome
  /\ CrossDecrypted => (outcome.kind = "return" /\ outcome.val = issued.plainText)

----------------------------------------------------------------------------
(* C13.  Every value generateSecret returns is a valid secret: a text of   *)
(* 44 characters among A-Z a-z 0-9 '-' '_' '=' that base64url-decodes to   *)
(* exactly 32 bytes, so that getInstance on it does not fail.              *)

IsBase64UrlChar(c) ==
  \/ c \in 65..90
  \/ c \in 97..122
  \/ c \in 48..57
  \/ c \in {Minus, Underscore, Equals}

GeneratedSecret == outcome.op = "generateSecret" /\ outcome.kind = "return"

C13_GeneratedSecretValid ==
  /\ GeneratedSecret =>
        /\ Len(outcome.val) = 44
        /\ \A i \in 1..Len(outcome.val) : IsBase64UrlChar(outcome.val[i])
        /\ fromBase64Url(outcome.val).ok
        /\ Len(fromBase64Url(outcome.val).val) = 32
        /\ importKeys(outcome.val).ok
  /\ (/\ outcome.op = "getInstance"
      /\ outcome.input \in {toBase64Url(b) : b \in RandomSecretBytes})
       => (outcome.kind = "return" /\ fernet = importKeys(outcome.input).val)

\* a generated secret with '-', '_' and the padding '=' in it
C13_Witness ==
  /\ GeneratedSecret
  /\ \A c \in {Minus, Underscore, Equals} :
       \E i \in 1..Len(outcome.val) : outcome.val[i] = c
  /\ importKeys(outcome.val).ok

----------------------------------------------------------------------------
(* C14.  Calls that run at the same time on one instance do not interfere: *)
(* whatever the order of their steps between the awaits, each call ends as *)
(* it does when it runs alone with the same input, IV and clock reading,   *)
(* and the keys of the instance are after every call, failed or not, the   *)
(* keys it was constructed with.                                           *)

\* the same call run alone
RunAlone(o) ==
  IF o.op = "encrypt"
  THEN doEncryption(o.input, o.keys.signingKey, o.keys.encryptionKey,
                    o.iv, o.clockMs)
  ELSE doDecryption(o.input, o.keys.signingKey, o.keys.encryptionKey)

C14_NoInterference ==
  /\ fernet = importKeys(secret).val
  /\ \A id \in CallIds :
       outcomes[id] # NoOutcome =>
         /\ outcomes[id].keys = fernet
         /\ Result(outcomes[id]) = RunAlone(outcomes[id])

\* two encrypt calls with different IVs: the one that read the clock later
\* has returned while the other, which read it earlier, still awaits its HMAC
C14_Witness ==
  \E a, b \in CallIds :
    /\ outcomes[a].op = "encrypt" /\ outcomes[a].kind = "return"
    /\ calls[b].pc = "signing"
    /\ calls[b].iv # outcomes[a].iv
    /\ calls[b].clockMs < outcomes[a].clockMs

----------------------------------------------------------------------------
(* C15.  Each validation failure is reported with a kind that depends only *)
(* on the step that failed, and the six causes (secret encoding, secret    *)
(* length, token encoding, token length, decryption failure, signature     *)
(* mismatch) are pairwise distinguishable: no two of them come with the    *)
(* same error class and message.                                           *)

Causes ==
  {"secret encoding", "secret length", "token encoding", "token length",
   "decryption failure", "signature mismatch"}

\* the step at which a failed call stopped
Cause(o) ==
  IF o.op = "getInstance"
  THEN IF ~fromBase64Url(o.input).ok THEN "secret encoding" ELSE "secret length"
  ELSE LET last == o.steps[Len(o.steps)]
       IN  IF last = "decode" THEN "token encoding"
           ELSE IF last = "length" THEN "token length"
           ELSE IF last = "decrypt" THEN "decryption failure"
           ELSE IF last = "verify" THEN "signature mismatch"
           ELSE "none"

\* the class and message the caller sees for each cause
Reported(cause) ==
  CASE cause = "secret encoding" ->
         [class |-> "InvalidSecretError", message |-> "Invalid secret key encoding."]
    [] cause = "secret length" ->
         [class |-> "InvalidSecretError", message |-> "Invalid secret key length."]
    [] cause = "token encoding" ->
         [class |-> "InvalidTokenError",
          message |-> "Fernet token has invalid encoding."]
    [] cause = "token length" ->
         [class |-> "InvalidTokenError",
          message |-> "Fernet token has invalid length."]
    [] cause = "decryption failure" ->
         [class |-> "FailedDecryptionError",
          message |-> "Failed to decrypt the ciphertext."]
    [] cause = "signature mismatch" ->
         [class |-> "InvalidTokenError",
          message |-> "Fernet token has invalid signature."]

FailedCall == outcome.kind = "throw" /\ outcome.op \in {"getInstance", "decrypt"}

C15_DistinctKinds ==
  /\ \A c1, c2 \in Causes : c1 # c2 => Reported(c1) # Reported(c2)
  /\ FailedCall =>
       /\ Cause(outcome) \in Causes
       /\ outcome.val = Reported(Cause(outcome))
       /\ \A c \in Causes : c # Cause(outcome) => outcome.val # Reported(c)

\* a token refused for its length: the class is that of the two other token
\* errors, the message is not
C15_Witness ==
  /\ FailedCall
  /\ Cause(outcome) = "token length"
  /\ outcome.val.class = Reported("token encoding").class
  /\ outcome.val # Reported("token encoding")
  /\ outcome.val # Reported("signature mismatch")

----------------------------------------------------------------------------
(* C16.  fromBase64Url fails for every text with at least one character    *)
(* outside the base64url alphabet (A-Z, a-z, 0-9, '-', '_' and the padding *)
(* '='): '+', '/' and whitespace are not accepted.                         *)

Decoded == outcome.op = "fromBase64Url"

C16_OnlyBase64UrlAccepted ==
  (Decoded /\ \E i \in 1..Len(outcome.input) : ~IsBase64UrlChar(outcome.input[i]))
    => outcome.kind = "throw"

----------------------------------------------------------------------------
(* C17.  base64url is reversible and takes padded and unpadded text: for   *)
(* every byte string b, fromBase64Url(toBase64Url(b)) = b, and decoding    *)
(* toBase64Url(b) without its trailing '=' characters gives b as well.     *)

C17_Base64UrlRoundTrip ==
  (/\ Decoded
   /\ outcome.input \in
        {toBase64Url(outcome.bytes), StripPadding(toBase64Url(outcome.bytes))})
    => (outcome.kind = "return" /\ outcome.val = outcome.bytes)

\* an unpadded text with '-' or '_' in it has been decoded to its bytes
C17_Witness ==
  /\ Decoded
  /\ outcome.input = StripPadding(toBase64Url(outcome.bytes))
  /\ outcome.input # toBase64Url(outcome.bytes)
  /\ \E i \in 1..Len(outcome.input) : outcome.input[i] \in {Minus, Underscore}
  /\ outcome.kind = "return"
  /\ outcome.val = outcome.bytes

----------------------------------------------------------------------------
(* C18.  encrypt does its steps in the stated order: it reads the clock    *)
(* for the timestamp, then draws the IV, then pads and encrypts the        *)
(* message, then computes the HMAC, then concatenates the fields and       *)
(* encodes them; the timestamp of a token is therefore the time at which   *)
(* the encrypt call started, not a time after the encryption finished.     *)

\* an encrypt call has returned a token
Encrypted == outcome.op = "encrypt" /\ outcome.kind = "return"

\* the steps an encrypt call ran, without the import of the static method
EncryptSteps == SelectSeq(outcome.steps, LAMBDA step : step # "importKeys")

\* the timestamp of the token is that of the clock when the call started
C18_TimestampOfCallStart ==
  Encrypted =>
    TokenFields(fromBase64Url(outcome.val).val).timestamp
      = getTimestampBuffer(outcome.startMs)

C18_StepsInStatedOrder ==
  /\ Encrypted =>
       EncryptSteps = <<"timestamp", "iv", "encrypt", "hmac", "encode">>
  /\ C18_TimestampOfCallStart

----------------------------------------------------------------------------
(* C19.  Timestamps do not go back: of two encrypt calls made one after    *)
(* the other (the second starts when the first has completed) under a      *)
(* clock that does not go back, the second token's timestamp t2 is greater *)
(* than or equal to the first token's timestamp t1.                        *)

\* the timestamp field of a token text, in seconds: the first 12 characters
\* of the text are the version byte and the 8 bytes of the timestamp
TimestampOf(token) ==
  ReadBigUint64(Slice(fromBase64Url(SubSeq(token, 1, 12)).val, 1, 9))

\* an encrypt call has returned a token after an earlier one returned one
SecondToken == Encrypted /\ outcome.previous # <<>>

----------------------------------------------------------------------------
(* C20.  decrypt returns a message only if the AES-CBC decryption          *)
(* succeeded and the last 32 bytes of the decoded token are the            *)
(* HMAC-SHA256 of all the bytes before them under the signing key; where   *)
(* either does not hold, decrypt ends in an error and hands no plaintext   *)
(* to the caller.                                                          *)

\* the decoded token decrypts under the keys of the call
DecryptionSucceeds ==
  LET f == TokenFields(InputBuffer.val)
  IN  /\ InputBuffer.ok
      /\ Len(InputBuffer.val) >= MinTokenLength
      /\ subtleDecrypt(f.iv, outcome.keys.encryptionKey, f.cipherText).ok

\* its last 32 bytes are the HMAC of the bytes before them
HmacMatches ==
  /\ InputBuffer.ok
  /\ Len(InputBuffer.val) >= HmacLength
  /\ SliceTail(InputBuffer.val, HmacLength)
       = HmacSha256(outcome.keys.signingKey.raw,
                    SliceHead(InputBuffer.val, HmacLength))

Errors ==
  {Reported(cause) : cause \in Causes}

C20_OnlyAuthenticatedReturned ==
  Decrypted =>
    /\ outcome.kind = "return" => (DecryptionSucceeds /\ HmacMatches)
    /\ ~(DecryptionSucceeds /\ HmacMatches) =>
         (outcome.kind = "throw" /\ outcome.val \in Errors)

\* a token that decrypts under the keys and has another HMAC was refused,
\* its decrypted text held back
C20_Witness ==
  /\ Decrypted
  /\ DecryptionSucceeds
  /\ ~HmacMatches
  /\ outcome.kind = "throw"
  /\ outcome.val \in Errors

----------------------------------------------------------------------------
(* C21.  decrypt never interprets the timestamp and never reads the clock: *)
(* tokens do not expire.  Two tokens under the same key that differ only   *)
(* in their timestamp bytes, each with the HMAC of its own bytes, have the *)
(* same outcome, and so has one token decrypted at any two times.          *)

\* the decrypt call that has just finished (no other call has begun since)
\* was given the last token with other timestamp bytes and the HMAC of the
\* changed bytes
TimestampChanged ==
  /\ Decrypted
  /\ call = Idle
  /\ SameKeys
  /\ InputBuffer.ok
  /\ LET given == InputBuffer.val
         made == IssuedBuffer
         signed == Len(made) - HmacLength
     IN  /\ Len(given) = Len(made)
         /\ SubSeq(given, 1, 1) = SubSeq(made, 1, 1)
         /\ SubSeq(given, 10, signed) = SubSeq(made, 10, signed)
         /\ SubSeq(given, 2, 9) # SubSeq(made, 2, 9)
  /\ HmacMatches

\* the token as issued, decrypted alone under the keys of the call
OfIssuedToken ==
  doDecryption(issued.token, outcome.keys.signingKey, outcome.keys.encryptionKey)

\* the token of the call, decrypted alone: the clock is no part of it
AtAnyTime ==
  doDecryption(outcome.input, outcome.keys.signingKey,
               outcome.keys.encryptionKey)

C21_TokensDoNotExpire ==
  /\ TimestampChanged => Result(outcome) = OfIssuedToken
  /\ Decrypted /\ call = Idle => Result(outcome) = AtAnyTime

\* a token dated to the epoch, decades before the clock of its decryption,
\* which moved on while the call was in flight, gave the message back
C21_Witness ==
  /\ TimestampChanged
  /\ nowMs > 0
  /\ TokenFields(InputBuffer.val).timestamp = <<0, 0, 0, 0, 0, 0, 0, 0>>
  /\ outcome.kind = "return"
  /\ Result(outcome) = OfIssuedToken

====
